---- MODULE Spec2Model ----
(***************************************************************************)
(* Duplicate image cleaner (src/images/clear_img.py): the run of main()    *)
(* from the scan of the target folder to the end of the cleanup, as a      *)
(* state machine.  Files are numbered in scan order (image_files[i] = i).  *)
(***************************************************************************)
EXTENDS Integers, Sequences, FiniteSets, TLC

\* ---------------------------------------------------------------- bounds
MaxFiles  == 4    \* image files found by the scan
MaxDigest == 2    \* distinct MD5 values
MaxSize   == 1    \* distinct byte sizes
MaxDim    == 1    \* distinct pixel dimensions
MaxTime   == 2    \* distinct st_ctime values
MaxMetaFail == 1  \* files whose get_image_metadata fails
MaxStatFail == 1  \* files of one group whose stat() fails
MaxIOFail == 1    \* copies or unlinks that fail in one run
MaxGroup == 3     \* members of the group given to select_kept_file alone
MaxStatSize == 1  \* st_size values (from 0) given to select_kept_file alone

None == 0         \* calculate_file_hash's None
Inf  == MaxTime + 1   \* float('inf') of select_kept_file: above every st_ctime

Files == 1..MaxFiles

VARIABLES
  pc,                   \* position of main()
  exit,                 \* how main() ended: "" while running
  image_files,          \* result of get_all_image_files
  fsize,                \* the disk: byte size of each scanned file
  disk,                 \* the disk: scanned files that still exist
  backup_dir,           \* the disk: backup folder exists
  backup_files,         \* the disk: files copied under the backup folder
  pending,              \* futures not yet yielded by as_completed
  future_result,        \* result of each yielded future
  hash_groups,          \* find_duplicates_by_hash: hash -> list of files
  metadata_dict,        \* find_duplicates_by_metadata: file -> metadata
  size_duplicates,      \* buckets sharing (dimensions, size), more than one file
  bidx,                 \* position in size_duplicates
  all_duplicate_groups, \* find_duplicate_groups: the result
  processed_files,      \* find_duplicate_groups: files already in a group
  vs,                   \* locals of verify_size_duplicates
  verified,             \* pairs are_images_identical returned True for
  compared,             \* the calls of are_images_identical and what each saw
  dry_run, backup_folder,   \* arguments of cleanup_duplicates
  gidx, ridx,           \* cleanup_duplicates: position in groups / files_to_remove
  stat_info,            \* stat() results read at the head of the current group
  kept_file, files_to_remove,
  cleanup_stats,
  attempted,            \* removal candidates whose try block was entered
  space_saved,          \* self.space_saved
  report, summary       \* save_report / print_summary outputs

scanVars  == <<image_files, fsize>>
diskVars  == <<disk, backup_dir, backup_files>>
hashVars  == <<pending, future_result, hash_groups>>
groupVars == <<metadata_dict, size_duplicates, bidx, processed_files, vs, verified,
               compared>>
cleanArgs == <<dry_run, backup_folder>>
cleanVars == <<gidx, ridx, stat_info, kept_file, files_to_remove,
               cleanup_stats, attempted>>
outVars   == <<space_saved, report, summary>>
vars == <<pc, exit, scanVars, diskVars, hashVars, groupVars,
          all_duplicate_groups, cleanArgs, cleanVars, outVars>>

\* ------------------------------------------------------------- helpers
Range(s) == {s[i] : i \in 1..Len(s)}

RECURSIVE SumSizes(_, _)
SumSizes(S, sz) ==
  IF S = {} THEN 0
  ELSE LET f == CHOOSE x \in S : TRUE IN sz[f] + SumSizes(S \ {f}, sz)

\* defaultdict(list): d[k].append(f), keys kept in first-insertion order
DictAppend(d, k, f) ==
  IF \E i \in 1..Len(d) : d[i].key = k
  THEN [i \in 1..Len(d) |->
          IF d[i].key = k THEN [d[i] EXCEPT !.files = Append(@, f)] ELSE d[i]]
  ELSE Append(d, [key |-> k, files |-> <<f>>])

\* the test of line 171 off by one: len(files) > 2
MoreThanTwo(e) == Len(e.files) > 2

\* {k: files for k, files in d.items() if len(files) > 1}
MoreThanOne(e) == Len(e.files) > 1
DuplicatesOnly(d) == SelectSeq(d, MoreThanOne)

NoMeta   == [ok |-> FALSE, dimensions |-> 0, size |-> 0]
NoLocals == [files |-> <<>>, i |-> 0, j |-> 0, current_group |-> <<>>,
             processed |-> {}, groups |-> <<>>]
NoStats  == [total_groups |-> 0, total_duplicates |-> 0, space_to_save |-> 0,
             kept_files |-> <<>>, removed_files |-> <<>>]

\* ---------------------------------------------------------------- Init
Init ==
  /\ pc = "scan" /\ exit = ""
  /\ image_files = <<>>
  /\ fsize = [f \in Files |-> 0]
  /\ disk = {} /\ backup_dir = FALSE /\ backup_files = {}
  /\ pending = {}
  /\ future_result = [f \in Files |-> None]
  /\ hash_groups = <<>>
  /\ metadata_dict = [f \in Files |-> NoMeta]
  /\ size_duplicates = <<>> /\ bidx = 0
  /\ all_duplicate_groups = <<>>
  /\ processed_files = {}
  /\ vs = NoLocals
  /\ verified = {}
  /\ compared = {}
  /\ dry_run = TRUE /\ backup_folder = FALSE
  /\ gidx = 0 /\ ridx = 0
  /\ stat_info = <<>>
  /\ kept_file = 0 /\ files_to_remove = <<>>
  /\ cleanup_stats = NoStats
  /\ attempted = {}
  /\ space_saved = 0
  /\ report = "none" /\ summary = FALSE

\* ------------------------------------------------- get_all_image_files
\* main, lines 508-513: the scan finds n valid images; none ends the run
GetAllImageFiles ==
  /\ pc = "scan"
  /\ \E n \in 0..MaxFiles, sz \in [Files -> 1..MaxSize] :
       /\ image_files' = [i \in 1..n |-> i]
       /\ fsize' = [f \in Files |-> IF f <= n THEN sz[f] ELSE 0]
       /\ disk' = 1..n
       /\ pending' = 1..n
       /\ IF n = 0 THEN pc' = "done" /\ exit' = "no_images"
                   ELSE pc' = "hashing" /\ exit' = exit
  /\ UNCHANGED <<backup_dir, backup_files, future_result, hash_groups,
                 groupVars, all_duplicate_groups, cleanArgs, cleanVars, outVars>>

\* ---------------------------------------------- find_duplicates_by_hash
\* one iteration of the as_completed loop: the future of file f is yielded
\* with hash h (None when calculate_file_hash failed).  Equal digests are
\* equal bytes, hence equal sizes.
HashComplete(f) ==
  /\ pc = "hashing"
  /\ f \in pending
  /\ \E h \in 0..MaxDigest :
       /\ h # None =>
            \A g \in Range(image_files) \ pending :
               future_result[g] = h => fsize[g] = fsize[f]
       /\ future_result' = [future_result EXCEPT ![f] = h]
       /\ hash_groups' = IF h # None THEN DictAppend(hash_groups, h, f)
                                     ELSE hash_groups
  /\ pending' = pending \ {f}
  /\ UNCHANGED <<pc, exit, scanVars, diskVars, groupVars,
                 all_duplicate_groups, cleanArgs, cleanVars, outVars>>

\* ------------------------------------------ find_duplicates_by_metadata
RECURSIVE SizeGroups(_, _, _)
SizeGroups(files, md, acc) ==
  IF files = <<>> THEN acc
  ELSE LET f == Head(files) IN
       SizeGroups(Tail(files), md,
                  IF md[f].ok
                  THEN DictAppend(acc, <<md[f].dimensions, md[f].size>>, f)
                  ELSE acc)

\* all futures yielded; get_image_metadata is read for every file: it fails
\* (None) for the files of bad, and reads the size on disk otherwise
FindDuplicatesByMetadata ==
  /\ pc = "hashing"
  /\ pending = {}
  /\ \E bad \in SUBSET Range(image_files), dims \in [Files -> 1..MaxDim] :
       /\ Cardinality(bad) <= MaxMetaFail
       /\ LET md == [f \in Files |->
                      IF f \in Range(image_files) \ bad
                      THEN [ok |-> TRUE, dimensions |-> dims[f], size |-> fsize[f]]
                      ELSE NoMeta] IN
            /\ metadata_dict' = md
            /\ size_duplicates' = DuplicatesOnly(SizeGroups(image_files, md, <<>>))
  /\ pc' = "merge"
  /\ UNCHANGED <<exit, scanVars, diskVars, hashVars, bidx, processed_files, vs,
                 verified, compared, all_duplicate_groups, cleanArgs, cleanVars,
                 outVars>>

\* ------------------------------------------------ find_duplicate_groups
\* lines 212-219: the hash groups, skipping a group that shares a file with
\* an earlier one
RECURSIVE MergeHash(_, _, _)
MergeHash(dups, groups, processed) ==
  IF dups = <<>> THEN [groups |-> groups, processed |-> processed]
  ELSE LET files == Head(dups).files IN
       IF Range(files) \cap processed = {}
       THEN MergeHash(Tail(dups),
                      Append(groups, [type |-> "exact_hash", files |-> files]),
                      processed \cup Range(files))
       ELSE MergeHash(Tail(dups), groups, processed)

MergeHashGroups ==
  /\ pc = "merge"
  /\ LET r == MergeHash(DuplicatesOnly(hash_groups), <<>>, {}) IN
       /\ all_duplicate_groups' = r.groups
       /\ processed_files' = r.processed
  /\ bidx' = 1
  /\ pc' = "size_loop"
  /\ UNCHANGED <<exit, scanVars, diskVars, hashVars, metadata_dict,
                 size_duplicates, vs, verified, compared, cleanArgs, cleanVars,
                 outVars>>

\* line 224 without the filter: every file of the bucket
UnclaimedNoFilter(files, processed) == files

\* line 224: the files of a bucket no group has claimed yet
Unclaimed(files, processed) ==
  SelectSeq(files, LAMBDA f : f \notin processed)

\* the first test of are_images_identical that decides: the sizes (line 117),
\* the dimensions (line 120), the hashes (line 127), else the pixels
Evidence(m1, m2, hash1, hash2, pixels) ==
  IF m1.size # m2.size THEN "size"
  ELSE IF m1.dimensions # m2.dimensions THEN "dimensions"
  ELSE IF hash1 # None /\ hash2 # None /\ hash1 = hash2 THEN "hash"
  ELSE pixels

\* are_images_identical returning True when the pixel comparison raises
AreImagesIdenticalOnError(m1, m2, hash1, hash2, pixels) ==
  IF m1.size # m2.size THEN FALSE
  ELSE IF m1.dimensions # m2.dimensions THEN FALSE
  ELSE IF hash1 # None /\ hash2 # None /\ hash1 = hash2 THEN TRUE
  ELSE pixels \in {"zero", "error"}

\* --------------------------------------------------- are_images_identical
\* hash1, hash2: the recomputed file hashes; pixels: what the pixel
\* comparison gives ("zero": getbbox() is None, "nonzero", "error": raised)
AreImagesIdentical(m1, m2, hash1, hash2, pixels) ==
  IF m1.size # m2.size THEN FALSE
  ELSE IF m1.dimensions # m2.dimensions THEN FALSE
  ELSE IF hash1 # None /\ hash2 # None /\ hash1 = hash2 THEN TRUE
  ELSE pixels = "zero"

PixelOutcomes == {"zero", "nonzero", "error"}

\* what calculate_file_hash can give when called again on f
Rehash(f) ==
  IF future_result[f] # None THEN {None, future_result[f]} ELSE 0..MaxDigest

\* ------------------------------------------------- verify_size_duplicates
\* file2 compared with the last file that joined the group, not with file1
LastOfGroup(s) == s.current_group[Len(s.current_group)]

\* lines 245, 257: the file each file2 is compared with is file1, the first
\* file of the current group
File1(s) == s.files[s.i]

\* line 265: the representative and at least one verified file
IsGroup(current_group) == Len(current_group) > 1

\* s.j = 0: at the top of the outer loop (line 245).  VNorm runs the loops
\* up to the next call of are_images_identical, or to the return.
RECURSIVE VNorm(_)
VNorm(s) ==
  IF s.i > Len(s.files) THEN s
  ELSE IF s.j = 0 THEN
    IF s.files[s.i] \in s.processed
    THEN VNorm([s EXCEPT !.i = @ + 1])
    ELSE VNorm([s EXCEPT !.current_group = <<s.files[s.i]>>, !.j = s.i + 1])
  ELSE IF s.j > Len(s.files) THEN
    IF IsGroup(s.current_group)
    THEN VNorm([s EXCEPT
                 !.groups = Append(@, [type |-> "exact_content",
                                       files |-> s.current_group]),
                 !.processed = @ \cup {s.files[s.i]},
                 !.i = @ + 1, !.j = 0, !.current_group = <<>>])
    ELSE VNorm([s EXCEPT !.i = @ + 1, !.j = 0, !.current_group = <<>>])
  ELSE IF s.files[s.j] \in s.processed THEN VNorm([s EXCEPT !.j = @ + 1])
  ELSE s

RECURSIVE GroupFiles(_)
GroupFiles(groups) ==
  IF groups = <<>> THEN {}
  ELSE Range(Head(groups).files) \cup GroupFiles(Tail(groups))

\* lines 222-238: the next bucket, or the return of find_duplicate_groups
SizeLoop ==
  /\ pc = "size_loop"
  /\ IF bidx > Len(size_duplicates)
     THEN /\ pc' = "grouped"
          /\ UNCHANGED <<bidx, vs>>
     ELSE LET remaining_files ==
                Unclaimed(size_duplicates[bidx].files, processed_files) IN
          IF Len(remaining_files) > 1
          THEN /\ vs' = VNorm([NoLocals EXCEPT !.files = remaining_files, !.i = 1])
               /\ pc' = "verify"
               /\ UNCHANGED bidx
          ELSE /\ bidx' = bidx + 1
               /\ UNCHANGED <<pc, vs>>
  /\ UNCHANGED <<exit, scanVars, diskVars, hashVars, metadata_dict,
                 size_duplicates, processed_files, verified, compared,
                 all_duplicate_groups, cleanArgs, cleanVars, outVars>>

\* lines 257-263: one call of are_images_identical(file1, file2), then the
\* loops up to the next call; at the return (lines 228-231) the verified
\* groups are added to the result
Compare ==
  /\ pc = "verify"
  /\ LET file1 == File1(vs)
         file2 == vs.files[vs.j] IN
     \E hash1 \in Rehash(file1), hash2 \in Rehash(file2), pixels \in PixelOutcomes :
       LET same == AreImagesIdentical(metadata_dict[file1], metadata_dict[file2],
                                      hash1, hash2, pixels)
           s1 == IF same
                 THEN [vs EXCEPT !.current_group = Append(@, file2),
                                 !.processed = @ \cup {file2}]
                 ELSE vs
           s2 == VNorm([s1 EXCEPT !.j = @ + 1])
       IN
       /\ verified' = IF same THEN verified \cup {<<file1, file2>>} ELSE verified
       /\ compared' = compared \cup
            {[file1 |-> file1, file2 |-> file2,
              saw |-> Evidence(metadata_dict[file1], metadata_dict[file2],
                               hash1, hash2, pixels)]}
       /\ IF s2.i > Len(s2.files)
          THEN /\ all_duplicate_groups' = all_duplicate_groups \o s2.groups
               /\ processed_files' = processed_files \cup GroupFiles(s2.groups)
               /\ bidx' = bidx + 1
               /\ vs' = NoLocals
               /\ pc' = "size_loop"
          ELSE /\ vs' = s2
               /\ UNCHANGED <<all_duplicate_groups, processed_files, bidx, pc>>
  /\ UNCHANGED <<exit, scanVars, diskVars, hashVars, metadata_dict,
                 size_duplicates, cleanArgs, cleanVars, outVars>>

\* locals of find_duplicates_by_hash / find_duplicate_groups, gone at return
GroupingDone ==
  /\ future_result' = [f \in Files |-> None]
  /\ hash_groups' = <<>>
  /\ metadata_dict' = [f \in Files |-> NoMeta]
  /\ size_duplicates' = <<>>
  /\ bidx' = 0
  /\ processed_files' = {}
  /\ verified' = {}
  /\ compared' = {}
  /\ UNCHANGED <<pending, vs>>

\* main, lines 518-521: no duplicate group, the run ends
NoDuplicates ==
  /\ pc = "grouped"
  /\ all_duplicate_groups = <<>>
  /\ pc' = "done" /\ exit' = "no_duplicates"
  /\ GroupingDone
  /\ UNCHANGED <<scanVars, diskVars, all_duplicate_groups, cleanArgs, cleanVars,
                 outVars>>

\* ------------------------------------------------------ select_kept_file
NoStat == [ok |-> FALSE, size |-> 0, created |-> 0]

\* lines 282-298: the stat of each file, or size 0 / created inf
FileInfo(file_group, st) ==
  [i \in 1..Len(file_group) |->
     LET f == file_group[i] IN
     IF st[f].ok THEN [path |-> f, size |-> st[f].size, created |-> st[f].created]
                 ELSE [path |-> f, size |-> 0, created |-> Inf]]

\* the key with the creation time reversed: (-x['size'], -x['created'])
KeyLessLatest(a, b) ==
  \/ a.size > b.size
  \/ a.size = b.size /\ a.created > b.created

\* key=lambda x: (-x['size'], x['created'])
KeyLess(a, b) ==
  \/ a.size > b.size
  \/ a.size = b.size /\ a.created < b.created

\* list.sort is stable: x goes before the first element with a greater key
SortInsert(sorted, x) ==
  LET before == {i \in 1..Len(sorted) : KeyLess(x, sorted[i])}
      k == IF before = {} THEN Len(sorted) + 1
           ELSE CHOOSE i \in before : \A m \in before : i <= m
  IN SubSeq(sorted, 1, k - 1) \o <<x>> \o SubSeq(sorted, k, Len(sorted))

RECURSIVE SortInfo(_, _)
SortInfo(info, sorted) ==
  IF info = <<>> THEN sorted
  ELSE SortInfo(Tail(info), SortInsert(sorted, Head(info)))

SelectKeptFile(file_group, st) ==
  IF file_group = <<>> THEN None
  ELSE SortInfo(FileInfo(file_group, st), <<>>)[1].path

\* ---------------------------------------------------- cleanup_duplicates
\* line 312: the backup folder is created
MakesBackupDir(dr, bf) == bf /\ ~dr

\* line 360 without the test of dry_run
TouchesFilesAlways(dr) == TRUE

\* line 360: the files are touched
TouchesFiles(dr) == ~dr

\* line 338 without the filter: the kept file is a candidate too
FilesToRemoveAll(files, kept) == files

\* line 338
FilesToRemove(files, kept) == SelectSeq(files, LAMBDA f : f # kept)

\* lines 341-346: sizes of the candidates whose stat succeeds
RECURSIVE SpaceOf(_, _)
SpaceOf(files, st) ==
  IF files = <<>> THEN 0
  ELSE (IF st[Head(files)].ok THEN st[Head(files)].size ELSE 0)
       + SpaceOf(Tail(files), st)

\* the try block around the loop instead of inside it
CaughtOutsideLoop == FALSE

\* lines 372-373: an exception of the copy or the unlink is caught inside
\* the loop over the candidates
CaughtInLoop == TRUE

\* the unlink outside the try block of the copy
UnlinkAlways(copy_ok) == TRUE

\* line 367 before line 370: after a copy, the unlink runs only if it succeeded
UnlinkAfterCopy(copy_ok) == copy_ok

\* main, lines 524-528, and cleanup_duplicates, lines 304-323
CleanupStart ==
  /\ pc = "grouped"
  /\ all_duplicate_groups # <<>>
  /\ GroupingDone
  /\ \E dr \in BOOLEAN, bf \in BOOLEAN, mkdir_ok \in BOOLEAN :
       /\ dry_run' = dr /\ backup_folder' = bf
       /\ IF MakesBackupDir(dr, bf)
          THEN IF mkdir_ok
               THEN backup_dir' = TRUE /\ pc' = "group" /\ exit' = exit
               ELSE backup_dir' = backup_dir /\ pc' = "done" /\ exit' = "error"
          ELSE mkdir_ok /\ backup_dir' = backup_dir /\ pc' = "group" /\ exit' = exit
  /\ cleanup_stats' = [NoStats EXCEPT !.total_groups = Len(all_duplicate_groups)]
  /\ gidx' = 1 /\ ridx' = 0
  /\ UNCHANGED <<scanVars, disk, backup_files, all_duplicate_groups, stat_info,
                 kept_file, files_to_remove, attempted, outVars>>

\* lines 326-354: the head of the loop over the groups
GroupStart ==
  /\ pc = "group"
  /\ gidx <= Len(all_duplicate_groups)
  /\ LET files == all_duplicate_groups[gidx].files IN
     \E bad \in SUBSET Range(files), ct \in [Files -> 1..MaxTime] :
       /\ Cardinality(bad) <= MaxStatFail
       /\ \A f \in Files \ Range(files) : ct[f] = 1
       /\ LET st == [f \in Files |->
                      IF f \in Range(files) \ bad
                      THEN [ok |-> TRUE, size |-> fsize[f], created |-> ct[f]]
                      ELSE NoStat]
              kept == SelectKeptFile(files, st)
              rem == FilesToRemove(files, kept)
          IN
          /\ stat_info' = st
          /\ IF kept = None
             THEN /\ gidx' = gidx + 1
                  /\ UNCHANGED <<pc, ridx, kept_file, files_to_remove, cleanup_stats>>
             ELSE /\ kept_file' = kept
                  /\ files_to_remove' = rem
                  /\ cleanup_stats' =
                       [cleanup_stats EXCEPT
                          !.space_to_save = @ + SpaceOf(rem, st),
                          !.total_duplicates = @ + Len(rem),
                          !.kept_files = Append(@, kept),
                          !.removed_files = @ \o rem]
                  /\ IF rem = <<>>
                     THEN gidx' = gidx + 1 /\ UNCHANGED <<pc, ridx>>
                     ELSE gidx' = gidx /\ ridx' = 1 /\ pc' = "remove"
  /\ UNCHANGED <<exit, scanVars, diskVars, hashVars, groupVars,
                 all_duplicate_groups, cleanArgs, attempted, outVars>>

\* candidates whose copy or unlink raised: entered the try block, still on
\* disk, and not waiting for their unlink
Failed ==
  (attempted \cap disk) \ (IF pc = "unlink" THEN {files_to_remove[ridx]} ELSE {})

MayFail(f) == f \notin disk \/ Cardinality(Failed) < MaxIOFail

\* the loop of line 356 moves to the next candidate, or to the next group
NextCandidate ==
  IF ridx < Len(files_to_remove)
  THEN ridx' = ridx + 1 /\ pc' = "remove" /\ UNCHANGED gidx
  ELSE ridx' = 0 /\ pc' = "group" /\ gidx' = gidx + 1

\* an exception inside the try block of lines 361-371
Raised ==
  IF CaughtInLoop
  THEN NextCandidate /\ UNCHANGED <<exit, cleanup_stats>>
  ELSE /\ pc' = "done" /\ exit' = "error"
       /\ cleanup_stats' = NoStats
       /\ UNCHANGED <<gidx, ridx>>

\* lines 356-360 with dry_run: the candidate is only logged
DryRunFile ==
  /\ pc = "remove"
  /\ ~TouchesFiles(dry_run)
  /\ NextCandidate
  /\ stat_info' = <<>>
  /\ UNCHANGED <<exit, scanVars, diskVars, hashVars, groupVars,
                 all_duplicate_groups, cleanArgs, kept_file,
                 files_to_remove, cleanup_stats, attempted, outVars>>

\* lines 362-367: the copy under the backup folder
BackupCopy ==
  /\ pc = "remove"
  /\ TouchesFiles(dry_run)
  /\ backup_folder
  /\ stat_info' = <<>>
  /\ LET f == files_to_remove[ridx] IN
     /\ attempted' = attempted \cup {f}
     /\ \E copy_ok \in BOOLEAN :
          /\ copy_ok => f \in disk /\ backup_dir
          /\ ~copy_ok => MayFail(f)
          /\ backup_files' = IF copy_ok THEN backup_files \cup {f} ELSE backup_files
          /\ IF UnlinkAfterCopy(copy_ok)
             THEN pc' = "unlink" /\ UNCHANGED <<exit, gidx, ridx, cleanup_stats>>
             ELSE Raised
  /\ UNCHANGED <<scanVars, disk, backup_dir, hashVars, groupVars,
                 all_duplicate_groups, cleanArgs, kept_file,
                 files_to_remove, outVars>>

\* line 370: the unlink
Unlink ==
  /\ \/ pc = "unlink"
     \/ pc = "remove" /\ TouchesFiles(dry_run) /\ ~backup_folder
  /\ stat_info' = <<>>
  /\ LET f == files_to_remove[ridx] IN
     /\ attempted' = attempted \cup {f}
     /\ \E unlink_ok \in BOOLEAN :
          /\ unlink_ok => f \in disk
          /\ ~unlink_ok => MayFail(f)
          /\ IF unlink_ok
             THEN /\ disk' = disk \ {f}
                  /\ NextCandidate
                  /\ UNCHANGED <<exit, cleanup_stats>>
             ELSE /\ disk' = disk
                  /\ Raised
  /\ UNCHANGED <<scanVars, backup_dir, backup_files, hashVars, groupVars,
                 all_duplicate_groups, cleanArgs, kept_file,
                 files_to_remove, outVars>>

\* lines 376-378: the groups are done, cleanup_duplicates returns
CleanupReturn ==
  /\ pc = "group"
  /\ gidx > Len(all_duplicate_groups)
  /\ space_saved' = cleanup_stats.space_to_save
  /\ pc' = "report"
  /\ gidx' = 0 /\ ridx' = 0
  /\ stat_info' = <<>> /\ kept_file' = 0 /\ files_to_remove' = <<>>
  /\ UNCHANGED <<exit, scanVars, diskVars, hashVars, groupVars,
                 all_duplicate_groups, cleanArgs, cleanup_stats, attempted,
                 report, summary>>

\* main, lines 531-537: save_report, whose write may fail (lines 410-415),
\* then print_summary
ReportAndSummary ==
  /\ pc = "report"
  /\ \E write_ok \in BOOLEAN : report' = IF write_ok THEN "saved" ELSE "failed"
  /\ summary' = TRUE
  /\ pc' = "done" /\ exit' = "ok"
  /\ UNCHANGED <<scanVars, diskVars, hashVars, groupVars,
                 all_duplicate_groups, cleanArgs, cleanVars, space_saved>>

\* main, lines 539-540: KeyboardInterrupt raised inside cleanup_duplicates is
\* not an Exception: it leaves the loops and main prints the interruption
Interrupt ==
  /\ pc \in {"group", "remove", "unlink"}
  /\ pc' = "done" /\ exit' = "interrupted"
  /\ gidx' = 0 /\ ridx' = 0
  /\ stat_info' = <<>> /\ kept_file' = 0 /\ files_to_remove' = <<>>
  /\ cleanup_stats' = NoStats
  /\ UNCHANGED <<scanVars, diskVars, hashVars, groupVars,
                 all_duplicate_groups, cleanArgs, attempted, outVars>>

\* ================================================================ claims
Deleted == Range(image_files) \ disk
Stats == cleanup_stats
ApplyDone == exit = "ok" /\ ~dry_run

\* C1: every file is in at most one group of the result of
\* find_duplicate_groups, and at most once in that group.
C1_GroupsDisjoint ==
  /\ \A i, j \in 1..Len(all_duplicate_groups) :
        i # j => Range(all_duplicate_groups[i].files)
                   \cap Range(all_duplicate_groups[j].files) = {}
  /\ \A i \in 1..Len(all_duplicate_groups) :
        LET files == all_duplicate_groups[i].files IN
        \A a, b \in 1..Len(files) : a # b => files[a] # files[b]

C1_Witness ==
  /\ pc = "grouped"
  /\ \E i, j \in 1..Len(all_duplicate_groups) :
        /\ all_duplicate_groups[i].type = "exact_hash"
        /\ all_duplicate_groups[j].type = "exact_content"

\* C2: with a backup folder and dry_run = False, a deleted file has been
\* copied under the backup folder before; a file whose copy failed stays.
C2_BackupBeforeDelete ==
  (~dry_run /\ backup_folder) => Deleted \subseteq backup_files

C2_Witness ==
  /\ ApplyDone /\ backup_folder
  /\ Deleted # {}
  /\ \E f \in attempted : f \in disk /\ f \notin backup_files

\* C3: each processed group has exactly one kept file, a member of it; the
\* removed files are exactly the other members; no kept file is removed or
\* unlinked, and no group ever loses all its members.
RECURSIVE FilesOfFirst(_, _)
FilesOfFirst(groups, n) ==
  IF n = 0 THEN {} ELSE Range(groups[n].files) \cup FilesOfFirst(groups, n - 1)

C3_KeeperNeverRemoved ==
  LET n == Len(Stats.kept_files) IN
  /\ n <= Len(all_duplicate_groups)
  /\ \A i \in 1..n : Stats.kept_files[i] \in Range(all_duplicate_groups[i].files)
  /\ Range(Stats.removed_files)
       = FilesOfFirst(all_duplicate_groups, n) \ Range(Stats.kept_files)
  /\ Range(Stats.kept_files) \cap Deleted = {}
  /\ Deleted \subseteq attempted
  /\ exit \notin {"interrupted", "error"} => attempted \subseteq Range(Stats.removed_files)
  /\ exit = "ok" => n = Len(all_duplicate_groups)
  /\ \A i \in 1..Len(all_duplicate_groups) :
        ~(Range(all_duplicate_groups[i].files) \subseteq Deleted)

C3_Witness ==
  /\ ApplyDone
  /\ Len(all_duplicate_groups) = 2
  /\ Deleted # {}
  /\ \E f \in attempted : f \in disk

C5_ReclaimedBytes ==
  exit = "ok" =>
    space_saved = IF dry_run THEN SumSizes(Range(Stats.removed_files), fsize)
                             ELSE SumSizes(Deleted, fsize)

\* C6: select_kept_file gives the same file for every ordering of the
\* members of the group.
Orderings(seq) ==
  {p \in [1..Len(seq) -> Range(seq)] :
     \A i, j \in 1..Len(seq) : i # j => p[i] # p[j]}

C6_OrderIndependent ==
  stat_info # <<>> =>
    \A p \in Orderings(all_duplicate_groups[gidx].files) :
       SelectKeptFile(p, stat_info) = kept_file

\* C7: the exact_hash groups of the result, order of the files included,
\* are those of the futures completing in submission order.
RECURSIVE InOrderHashGroups(_, _)
InOrderHashGroups(files, acc) ==
  IF files = <<>> THEN acc
  ELSE InOrderHashGroups(Tail(files),
         IF future_result[Head(files)] # None
         THEN DictAppend(acc, future_result[Head(files)], Head(files))
         ELSE acc)

IsHashGroup(g) == g.type = "exact_hash"

C7_CompletionOrderIndependent ==
  pc = "grouped" =>
    SelectSeq(all_duplicate_groups, IsHashGroup)
      = MergeHash(DuplicatesOnly(InOrderHashGroups(image_files, <<>>)), <<>>, {}).groups

\* C8: a failed copy or unlink never ends the run: the run ends in error
\* only before any candidate was tried, and a finished apply run has tried
\* every candidate of every group and returned its statistics.
C8_FailureIsolated ==
  /\ exit = "error" => attempted = {}
  /\ ApplyDone =>
       /\ Len(Stats.kept_files) = Len(all_duplicate_groups)
       /\ Stats.total_groups = Len(all_duplicate_groups)
       /\ attempted = Range(Stats.removed_files)
       /\ summary

C8_Witness ==
  /\ ApplyDone
  /\ \E i, j \in 1..Len(Stats.removed_files) :
        /\ i < j
        /\ Stats.removed_files[i] \in disk
        /\ Stats.removed_files[j] \notin disk

\* C9: the files reported as removed are only files that were deleted.
C9_RemovedAreDeleted ==
  ApplyDone => Range(Stats.removed_files) \subseteq Deleted

\* C10: an apply-mode cleanup that is interrupted is reported as a partial
\* run: a report or a summary of what was done is produced.
C10_InterruptReported ==
  (exit = "interrupted" /\ ~dry_run) => (report = "saved" \/ summary)


\* C11: two scanned files whose hashes were both computed and are equal are
\* in the same exact_hash group of the result of find_duplicate_groups.
C11_EqualDigestsGrouped ==
  pc \in {"size_loop", "verify", "grouped"} =>
    \A f, g \in Range(image_files) :
      (f # g /\ future_result[f] # None /\ future_result[f] = future_result[g]) =>
        \E i \in 1..Len(all_duplicate_groups) :
          /\ all_duplicate_groups[i].type = "exact_hash"
          /\ {f, g} \subseteq Range(all_duplicate_groups[i].files)

C11_Witness ==
  /\ pc = "grouped"
  /\ \E f, g, h \in Range(image_files) :
        /\ f < h /\ h < g
        /\ future_result[f] # None
        /\ future_result[f] = future_result[g]
        /\ future_result[h] # future_result[f]
        /\ metadata_dict[f] # metadata_dict[g]

\* C12: two files of one (dimensions, size) bucket whose hashes differ share
\* a group only if their pixel comparison gave no difference; when it gave a
\* difference or raised, are_images_identical returned False and the two
\* files are in no common group.
Together(a, b) ==
  \/ \E i \in 1..Len(all_duplicate_groups) :
        {a, b} \subseteq Range(all_duplicate_groups[i].files)
  \/ \E i \in 1..Len(vs.groups) : {a, b} \subseteq Range(vs.groups[i].files)
  \/ {a, b} \subseteq Range(vs.current_group)

C12_MergedOnlyOnZeroDifference ==
  \A c \in compared :
    /\ (c.saw # "hash" /\ Together(c.file1, c.file2)) => c.saw = "zero"
    /\ c.saw \in {"nonzero", "error"} =>
         /\ <<c.file1, c.file2>> \notin verified
         /\ ~Together(c.file1, c.file2)

C12_Witness ==
  /\ pc = "grouped"
  /\ \E c, d, e \in compared :
        /\ c.saw = "zero" /\ Together(c.file1, c.file2)
        /\ d.saw = "nonzero"
        /\ e.saw = "error"
        /\ metadata_dict[e.file1] = metadata_dict[e.file2]
        /\ future_result[c.file1] # future_result[c.file2]

\* C15: every exact_content group has at least two members; each member
\* after the first was verified identical to the first by its own call of
\* are_images_identical, and was rejected by every earlier file it was
\* compared with, so it joined the first representative it matches.
IsContentGroup(g) == g.type = "exact_content"

C15_VerifiedAgainstRepresentative ==
  pc = "grouped" =>
    /\ \A i \in 1..Len(all_duplicate_groups) :
         LET g == all_duplicate_groups[i] IN
         IsContentGroup(g) =>
           /\ Len(g.files) >= 2
           /\ \A k \in 2..Len(g.files) :
                /\ <<g.files[1], g.files[k]>> \in verified
                /\ g.files[1] < g.files[k]
                /\ \A c \in compared :
                     (c.file2 = g.files[k] /\ c.file1 # g.files[1]) =>
                       /\ c.file1 < g.files[1]
                       /\ <<c.file1, c.file2>> \notin verified
                /\ \A c \in compared : c.file1 # g.files[k]
    /\ \A p \in verified :
         \E i \in 1..Len(all_duplicate_groups) :
           /\ IsContentGroup(all_duplicate_groups[i])
           /\ all_duplicate_groups[i].files[1] = p[1]
           /\ p[2] \in Range(all_duplicate_groups[i].files)

\* a member that an earlier file rejected, in a group of three, while
\* another file of the bucket stays alone
C15_Witness ==
  /\ pc = "grouped"
  /\ \E i \in 1..Len(all_duplicate_groups) :
        LET g == all_duplicate_groups[i] IN
        /\ IsContentGroup(g)
        /\ Len(g.files) = 3
        /\ \E c \in compared :
              /\ c.file2 = g.files[2]
              /\ c.file1 < g.files[1]
              /\ c.file1 \notin processed_files

Next ==
  \/ GetAllImageFiles
  \/ \E f \in Files : HashComplete(f)
  \/ FindDuplicatesByMetadata
  \/ MergeHashGroups
  \/ SizeLoop
  \/ Compare
  \/ NoDuplicates
  \/ CleanupStart
  \/ GroupStart
  \/ DryRunFile
  \/ BackupCopy
  \/ Unlink
  \/ CleanupReturn
  \/ ReportAndSummary
  \/ Interrupt

Spec == Init /\ [][Next]_vars

\* C14: a run over a root folder without images ends normally with zero
\* duplicate groups and with a report that states zero duplicates.
C14_EmptyRunReported ==
  exit = "no_images" =>
    /\ pc = "done"
    /\ all_duplicate_groups = <<>>
    /\ report = "saved"

\* ------------------------------------------- select_kept_file on its own
\* every list of distinct files of 1..MaxGroup, with every stat result
GroupLists ==
  {g \in UNION {[1..n -> 1..MaxGroup] : n \in 1..MaxGroup} :
     \A i, j \in 1..Len(g) : i # j => g[i] # g[j]}

StatResults ==
  {NoStat} \cup [ok : {TRUE}, size : 0..MaxStatSize, created : 1..MaxTime]

InitSelect ==
  /\ pc = "select" /\ exit = ""
  /\ image_files = <<>>
  /\ fsize = [f \in Files |-> 0]
  /\ disk = {} /\ backup_dir = FALSE /\ backup_files = {}
  /\ pending = {}
  /\ future_result = [f \in Files |-> None]
  /\ hash_groups = <<>>
  /\ metadata_dict = [f \in Files |-> NoMeta]
  /\ size_duplicates = <<>> /\ bidx = 0
  /\ \E g \in GroupLists :
       /\ all_duplicate_groups = <<[type |-> "exact_hash", files |-> g]>>
       /\ stat_info \in [Files -> StatResults]
       /\ \A f \in Files \ Range(g) : stat_info[f] = NoStat
  /\ processed_files = {}
  /\ vs = NoLocals
  /\ verified = {} /\ compared = {}
  /\ dry_run = TRUE /\ backup_folder = FALSE
  /\ gidx = 1 /\ ridx = 0
  /\ kept_file = 0 /\ files_to_remove = <<>>
  /\ cleanup_stats = NoStats
  /\ attempted = {}
  /\ space_saved = 0
  /\ report = "none" /\ summary = FALSE

\* line 332: kept_file = self.select_kept_file(files)
SelectKept ==
  /\ pc = "select"
  /\ kept_file' = SelectKeptFile(all_duplicate_groups[gidx].files, stat_info)
  /\ pc' = "selected"
  /\ UNCHANGED <<exit, scanVars, diskVars, hashVars, groupVars,
                 all_duplicate_groups, cleanArgs, gidx, ridx, stat_info,
                 files_to_remove, cleanup_stats, attempted, outVars>>

NextSelect == SelectKept

SpecSelect == InitSelect /\ [][NextSelect]_vars

\* C13: select_kept_file returns a member of the largest size and, among
\* those, of the earliest creation time, a failed stat counting as size 0 and
\* creation time infinity: a member whose stat failed is not returned while
\* another member's stat succeeds, and a member is always returned.
SizeSeen(f) == IF stat_info[f].ok THEN stat_info[f].size ELSE 0
CreatedSeen(f) == IF stat_info[f].ok THEN stat_info[f].created ELSE MaxTime + 1

C13_LargestThenEarliest ==
  pc = "selected" =>
    LET members == Range(all_duplicate_groups[gidx].files) IN
    /\ kept_file \in members
    /\ \A f \in members : SizeSeen(f) <= SizeSeen(kept_file)
    /\ \A f \in members :
         SizeSeen(f) = SizeSeen(kept_file) => CreatedSeen(kept_file) <= CreatedSeen(f)
    /\ (\E f \in members : stat_info[f].ok) => stat_info[kept_file].ok

\* three members: the first one's stat fails, the second is as large as the
\* third but later, the third is kept
C13_Witness ==
  /\ pc = "selected"
  /\ LET files == all_duplicate_groups[gidx].files IN
     /\ Len(files) = 3
     /\ ~stat_info[files[1]].ok
     /\ stat_info[files[2]].ok /\ stat_info[files[3]].ok
     /\ stat_info[files[2]].size = stat_info[files[3]].size
     /\ stat_info[files[3]].created < stat_info[files[2]].created
     /\ kept_file = files[3]
====
